---- MODULE Spec2Model ----
(***************************************************************************)
(* Pharmacy invoice generator: the Excel-backed inventory store            *)
(* (app/data_store.py), the invoice (app/models.py) and the window that    *)
(* ties selection, reservation and checkout together (app/ui_main.py).     *)
(*                                                                         *)
(* Strings are sequences of one-character strings, so that strip() and     *)
(* lower() are computed.  A worksheet is the sequence of its data rows     *)
(* (sheet row i+1 is element i).  A cell is a record [kind, val]: kind     *)
(* "none" (empty cell), "text" (a non-numeric string) or "int".  The      *)
(* window's model keeps prices in whole units; the Invoice's totals are    *)
(* computed in Python's float.  The labels mg and rack are display-only    *)
(* strings and are left out of the records.                                *)
(***************************************************************************)
EXTENDS Integers, Sequences, FiniteSets, TLC

VARIABLES
    disk,           \* the worksheet as saved in the workbook file
    store,          \* MainWindow.store (ExcelDataStore or None)
    invoice,        \* MainWindow.invoice.items
    added_qty,      \* MainWindow.added_qty
    selected_name,  \* MainWindow.selected_name
    stock_label,    \* text of MainWindow.stock_label
    search_text,    \* text of MainWindow.search_input
    name_model,     \* string list of MainWindow._name_model (completer)
    add_enabled,    \* MainWindow.add_button.isEnabled()
    print_enabled,  \* MainWindow.print_button.isEnabled()
    last,           \* the handler that ran last, its quantity and its message boxes
    loaded_stock,   \* history: stock of each record when the store was loaded
    pending,        \* history: stocks before the first checkout whose save failed
    add_log         \* history: the add_item calls made on the invoice

vars == <<disk, store, invoice, added_qty, selected_name, stock_label,
          search_text, name_model, add_enabled, print_enabled, last,
          loaded_stock, pending, add_log>>

\* ---------------------------------------------------------------- bounds
MaxStock == 2
MaxQty == 2
MaxAdds == 4
MaxPriced == 2

\* ---------------------------------------------------------------- values
None == << "<None>" >>
EmptyMap == << >>
Put(f, k, v) == [x \in (DOMAIN f) \cup {k} |-> IF x = k THEN v ELSE f[x]]
Get(f, k, default) == IF k \in DOMAIN f THEN f[k] ELSE default
Max(a, b) == IF a >= b THEN a ELSE b

NoneCell == [kind |-> "none", val |-> 0]
TextCell == [kind |-> "text", val |-> 0]
IntCell(n) == [kind |-> "int", val |-> n]

\* ---------------------------------------------------------------- strings
Lower(c) == IF c = "A" THEN "a" ELSE IF c = "B" THEN "b" ELSE c

RECURSIVE LStrip(_)
LStrip(s) == IF s # << >> /\ Head(s) = " " THEN LStrip(Tail(s)) ELSE s

RECURSIVE RStrip(_)
RStrip(s) ==
    IF s # << >> /\ s[Len(s)] = " " THEN RStrip(SubSeq(s, 1, Len(s) - 1)) ELSE s

Strip(s) == RStrip(LStrip(s))

\* mutant: the name is stripped but its case is kept
normalize_name_keeps_case(name) == Strip(name)

normalize_name(name) == [i \in 1..Len(Strip(name)) |-> Lower(Strip(name)[i])]

\* ---------------------------------------------------------------- float
\* Python's float (IEEE 754 binary64, round to nearest, ties to even) for the
\* non-negative amounts of an invoice.  A natural number is the sequence of its
\* digits in base 2^15, least significant first, without leading zeros; a
\* float is [m, e] for m * 2^e with m of exactly FloatBits bits, or FZero.
FloatBits == 53
Base == 2^15

Digit(a, i) == IF i <= Len(a) THEN a[i] ELSE 0

RECURSIVE Trim(_)
Trim(a) == IF a # << >> /\ a[Len(a)] = 0 THEN Trim(SubSeq(a, 1, Len(a) - 1)) ELSE a

RECURSIVE Big(_)
Big(n) == IF n = 0 THEN << >> ELSE << n % Base >> \o Big(n \div Base)

RECURSIVE AddFrom(_, _, _, _)
AddFrom(a, b, i, carry) ==
    IF i > Len(a) /\ i > Len(b) THEN Big(carry)
    ELSE LET t == Digit(a, i) + Digit(b, i) + carry
         IN  << t % Base >> \o AddFrom(a, b, i + 1, t \div Base)

BigAdd(a, b) == AddFrom(a, b, 1, 0)

\* a - b for a >= b
RECURSIVE SubFrom(_, _, _, _)
SubFrom(a, b, i, borrow) ==
    IF i > Len(a) THEN << >>
    ELSE LET t == Digit(a, i) - Digit(b, i) - borrow
         IN  IF t < 0 THEN << t + Base >> \o SubFrom(a, b, i + 1, 1)
             ELSE << t >> \o SubFrom(a, b, i + 1, 0)

BigSub(a, b) == Trim(SubFrom(a, b, 1, 0))

RECURSIVE LessFrom(_, _, _)
LessFrom(a, b, i) ==
    IF i = 0 THEN FALSE
    ELSE IF a[i] # b[i] THEN a[i] < b[i]
    ELSE LessFrom(a, b, i - 1)

BigLess(a, b) ==
    IF Len(a) # Len(b) THEN Len(a) < Len(b) ELSE LessFrom(a, b, Len(a))

RECURSIVE MulSmallFrom(_, _, _, _)
MulSmallFrom(a, k, i, carry) ==
    IF i > Len(a) THEN Big(carry)
    ELSE LET t == a[i] * k + carry
         IN  << t % Base >> \o MulSmallFrom(a, k, i + 1, t \div Base)

\* a * k for 0 <= k < Base
BigMulSmall(a, k) == Trim(MulSmallFrom(a, k, 1, 0))

Zeros(n) == [i \in 1..n |-> 0]

RECURSIVE MulFrom(_, _, _)
MulFrom(a, b, i) ==
    IF i > Len(b) THEN << >>
    ELSE BigAdd(Trim(Zeros(i - 1) \o BigMulSmall(a, b[i])), MulFrom(a, b, i + 1))

BigMul(a, b) == MulFrom(a, b, 1)

\* quotient and remainder of a by k, 0 < k < Base, from the top digit down
RECURSIVE DivSmallFrom(_, _, _, _)
DivSmallFrom(a, k, i, rem) ==
    IF i = 0 THEN [q |-> << >>, r |-> rem]
    ELSE LET t == rem * Base + a[i]
             rest == DivSmallFrom(a, k, i - 1, t % k)
         IN  [q |-> Append(rest.q, t \div k), r |-> rest.r]

BigDivSmall(a, k) ==
    LET d == DivSmallFrom(a, k, Len(a), 0) IN [q |-> Trim(d.q), r |-> d.r]

RECURSIVE Bits(_)
Bits(n) == IF n = 0 THEN 0 ELSE 1 + Bits(n \div 2)

BitLength(a) == IF a = << >> THEN 0 ELSE 15 * (Len(a) - 1) + Bits(a[Len(a)])

ShiftLeft(a, n) ==
    IF a = << >> THEN << >>
    ELSE Zeros(n \div 15) \o BigMulSmall(a, 2^(n % 15))

\* floor(a / 2^n)
ShiftRight(a, n) ==
    IF n \div 15 >= Len(a) THEN << >>
    ELSE BigDivSmall(SubSeq(a, n \div 15 + 1, Len(a)), 2^(n % 15)).q

IsOdd(a) == a # << >> /\ a[1] % 2 = 1

FZero == [m |-> << >>, e |-> 0]

\* the float nearest to (n / d) * 2^e, ties to the even significand
Round(n, d, e) ==
    IF n = << >> THEN FZero
    ELSE LET k == Max(0, FloatBits + 2 + Bits(d) - BitLength(n))
             qr == BigDivSmall(ShiftLeft(n, k), d)
             drop == BitLength(qr.q) - FloatBits
             top == ShiftRight(qr.q, drop)
             low == BigSub(qr.q, ShiftLeft(top, drop))
             half == ShiftLeft(<< 1 >>, drop - 1)
             up == \/ BigLess(half, low)
                   \/ low = half /\ (qr.r # 0 \/ IsOdd(top))
             m == IF up THEN BigAdd(top, << 1 >>) ELSE top
         IN  IF BitLength(m) > FloatBits
             THEN [m |-> ShiftRight(m, 1), e |-> e - k + drop + 1]
             ELSE [m |-> m, e |-> e - k + drop]

\* float(n / d) for a decimal n / d: a number read from a cell or a spin box
FromDecimal(n, d) == Round(Big(n), d, 0)
FromInt(n) == Round(Big(n), 1, 0)

FMul(x, y) == Round(BigMul(x.m, y.m), 1, x.e + y.e)

\* x / 100.0
FDiv100(x) == Round(x.m, 100, x.e)

Aligned(x, low) == ShiftLeft(x.m, x.e - low)
LowExp(x, y) ==
    IF x.m = << >> THEN y.e ELSE IF y.m = << >> THEN x.e
    ELSE IF x.e < y.e THEN x.e ELSE y.e

FAdd(x, y) ==
    LET low == LowExp(x, y)
    IN  Round(BigAdd(IF x.m = << >> THEN << >> ELSE Aligned(x, low),
                     IF y.m = << >> THEN << >> ELSE Aligned(y, low)), 1, low)

\* x - y for x >= y >= 0
FSub(x, y) ==
    LET low == LowExp(x, y)
    IN  Round(BigSub(IF x.m = << >> THEN << >> ELSE Aligned(x, low),
                     IF y.m = << >> THEN << >> ELSE Aligned(y, low)), 1, low)

\* ---------------------------------------------------------------- data_store.py
to_int(value, default) ==
    IF value.kind = "none" THEN default
    ELSE IF value.kind = "int" THEN value.val
    ELSE default

to_float(value, default) ==
    IF value.kind = "none" THEN default
    ELSE IF value.kind = "int" THEN << value.val >>
    ELSE default

effective_price(row) ==
    LET price_val == to_float(row.price, << 0 >>)
        actual_price_val == to_float(row.actual, << >>)
    IN  IF actual_price_val # << >> THEN actual_price_val[1] ELSE price_val[1]

RECURSIVE read_rows(_, _, _)
read_rows(sheet, i, acc) ==
    IF i > Len(sheet) THEN acc
    ELSE LET row == sheet[i] IN
         IF row.name = << >> THEN read_rows(sheet, i + 1, acc)
         ELSE LET norm_name == normalize_name(row.name)
                  record == [name |-> row.name,
                             stock |-> to_int(row.stock, 0),
                             price |-> effective_price(row)]
              IN  read_rows(sheet, i + 1,
                      [names |-> Append(acc.names, row.name),
                       records |-> Put(acc.records, norm_name, record),
                       row_refs |-> Put(acc.row_refs, norm_name, i)])

NoStore ==
    [loaded |-> FALSE, sheet |-> << >>, names |-> << >>,
     records |-> EmptyMap, row_refs |-> EmptyMap]

ExcelDataStore(workbook) ==
    LET r == read_rows(workbook, 1,
                 [names |-> << >>, records |-> EmptyMap, row_refs |-> EmptyMap])
    IN  [loaded |-> TRUE, sheet |-> workbook, names |-> r.names,
         records |-> r.records, row_refs |-> r.row_refs]

has_medicine(st, name) == normalize_name(name) \in DOMAIN st.records
get_medicine(st, name) == st.records[normalize_name(name)]

\* mutant: the record is reduced but the worksheet cell is not written
reduce_stock_skips_cell(st, name, qty) ==
    LET norm == normalize_name(name) IN
    IF qty <= 0 THEN [store |-> st, exc |-> "ValueError: quantity"]
    ELSE IF norm \notin DOMAIN st.records THEN [store |-> st, exc |-> "KeyError"]
    ELSE LET new_stock == st.records[norm].stock - qty IN
         IF new_stock < 0
         THEN [store |-> st, exc |-> "ValueError: insufficient"]
         ELSE [store |-> [st EXCEPT !.records[norm].stock = new_stock], exc |-> ""]

\* mutant: the check for a positive quantity is missing
reduce_stock_accepts_nonpositive(st, name, qty) ==
    LET norm == normalize_name(name) IN
    IF norm \notin DOMAIN st.records THEN [store |-> st, exc |-> "KeyError"]
    ELSE LET new_stock == st.records[norm].stock - qty IN
         IF new_stock < 0
         THEN [store |-> st, exc |-> "ValueError: insufficient"]
         ELSE [store |->
                  [st EXCEPT !.records[norm].stock = new_stock,
                             !.sheet[st.row_refs[norm]].stock = IntCell(new_stock)],
               exc |-> ""]

\* reduce_stock: the store after the call and the exception it raised ("" for none)
reduce_stock(st, name, qty) ==
    LET norm == normalize_name(name) IN
    IF qty <= 0 THEN [store |-> st, exc |-> "ValueError: quantity"]
    ELSE IF norm \notin DOMAIN st.records THEN [store |-> st, exc |-> "KeyError"]
    ELSE LET record == st.records[norm]
             new_stock == record.stock - qty
         IN  IF new_stock < 0
             THEN [store |-> st, exc |-> "ValueError: insufficient"]
             ELSE [store |->
                      [st EXCEPT !.records[norm].stock = new_stock,
                                 !.sheet[st.row_refs[norm]].stock = IntCell(new_stock)],
                   exc |-> ""]

\* ---------------------------------------------------------------- models.py
RECURSIVE index_of(_, _, _)
index_of(items, name, i) ==
    IF i > Len(items) THEN 0
    ELSE IF items[i].name = name THEN i
    ELSE index_of(items, name, i + 1)

\* mutant: a new line is appended even when the name is already on the invoice
add_item_always_appends(items, item) == Append(items, item)

\* mutant: the merged line takes the new quantity instead of adding it
add_item_overwrites(items, item) ==
    LET k == index_of(items, item.name, 1) IN
    IF k # 0 THEN [items EXCEPT ![k].qty = item.qty]
    ELSE Append(items, item)

add_item(items, item) ==
    LET k == index_of(items, item.name, 1) IN
    IF k # 0 THEN [items EXCEPT ![k].qty = items[k].qty + item.qty]
    ELSE Append(items, item)

\* InvoiceItem.line_total with a float unit_price: the int qty is converted first
line_total(item) == FMul(item.unit_price, FromInt(item.qty))

\* sum() over the line totals, left to right from 0
RECURSIVE sum_line_totals(_, _, _)
sum_line_totals(items, i, acc) ==
    IF i > Len(items) THEN acc
    ELSE sum_line_totals(items, i + 1, FAdd(acc, line_total(items[i])))

subtotal(items) == sum_line_totals(items, 1, FZero)
discount_amount(items, percent) == FMul(subtotal(items), FDiv100(percent))
net_total(items, percent) == FSub(subtotal(items), discount_amount(items, percent))

\* ---------------------------------------------------------------- ui_main.py
Msg(title, exc, avail) == [title |-> title, exc |-> exc, avail |-> avail]
Ran(op, qty, msgs) == [op |-> op, qty |-> qty, msgs |-> msgs]
NoLabel == << >>
NoPending == [active |-> FALSE, stock |-> EmptyMap]
stocks_of(st) == [n \in DOMAIN st.records |-> st.records[n].stock]

LoadOutcomes == {"ok", "missing", "no sheet", "no columns"}

\* mutant: the old store is dropped when the load fails
load_store_drops_store(cur_store, outcome, workbook) ==
    IF outcome = "ok"
    THEN LET st == ExcelDataStore(workbook) IN
         [store |-> st, names |-> st.names, failed |-> FALSE, msgs |-> << >>]
    ELSE [store |-> NoStore, names |-> << >>, failed |-> TRUE,
          msgs |-> << Msg("Excel Error: Failed to load Excel", "", 0) >>]

\* _load_store: the store, the completer's names and the buttons after the call.
\* ExcelDataStore() raises when the file is missing, the sheet is missing or a
\* required column is missing; the message box shows the same title for all.
load_store(cur_store, outcome, workbook) ==
    IF outcome = "ok"
    THEN LET st == ExcelDataStore(workbook) IN
         [store |-> st, names |-> st.names, failed |-> FALSE, msgs |-> << >>]
    ELSE [store |-> cur_store, names |-> << >>, failed |-> TRUE,
          msgs |-> << Msg("Excel Error: Failed to load Excel", "", 0) >>]

clear_selection == [selected_name |-> None, stock_label |-> NoLabel]

\* mutant: the quantity already in the invoice is not subtracted
available_stock_ignores_ledger(st, aq, name) ==
    IF ~st.loaded THEN 0
    ELSE IF ~has_medicine(st, name) THEN 0
    ELSE Max(get_medicine(st, name).stock, 0)

available_stock(st, aq, name) ==
    IF ~st.loaded THEN 0
    ELSE IF ~has_medicine(st, name) THEN 0
    ELSE LET record == get_medicine(st, name)
             used == Get(aq, record.name, 0)
         IN  Max(record.stock - used, 0)

select_medicine(st, aq, cur, name) ==
    IF ~st.loaded THEN cur
    ELSE IF ~has_medicine(st, name) THEN clear_selection
    ELSE LET record == get_medicine(st, name) IN
         [selected_name |-> record.name,
          stock_label |-> << available_stock(st, aq, record.name) >>]

Selection == [selected_name |-> selected_name, stock_label |-> stock_label]

OnSearchText(text) ==
    /\ text # search_text
    /\ search_text' = text
    /\ LET sel == IF text = << >> THEN clear_selection
                  ELSE IF ~store.loaded THEN Selection
                  ELSE IF has_medicine(store, text)
                       THEN select_medicine(store, added_qty, Selection,
                                            get_medicine(store, text).name)
                       ELSE Selection
       IN  /\ selected_name' = sel.selected_name
           /\ stock_label' = sel.stock_label
    /\ last' = Ran("_on_search_text", 0, << >>)
    /\ UNCHANGED <<disk, store, invoice, added_qty, name_model, add_enabled,
                   print_enabled, loaded_stock, pending, add_log>>

OnSearchEnter ==
    /\ LET text == Strip(search_text)
           found == text # << >> /\ store.loaded /\ has_medicine(store, text)
           sel == IF text = << >> \/ ~store.loaded THEN Selection
                  ELSE IF found
                       THEN select_medicine(store, added_qty, Selection,
                                            get_medicine(store, text).name)
                       ELSE clear_selection
           msgs == IF text = << >> \/ ~store.loaded \/ found THEN << >>
                   ELSE << Msg("Not found", "", 0) >>
       IN  /\ selected_name' = sel.selected_name
           /\ stock_label' = sel.stock_label
           /\ last' = Ran("_on_search_enter", 0, msgs)
    /\ UNCHANGED <<disk, store, invoice, added_qty, search_text, name_model,
                   add_enabled, print_enabled, loaded_stock, pending, add_log>>

\* QCompleter.activated: the completion becomes the input's text and is selected
CompleterActivated(name) ==
    /\ \E i \in 1..Len(name_model) : name_model[i] = name
    /\ search_text' = name
    /\ LET sel == select_medicine(store, added_qty, Selection, name)
       IN  /\ selected_name' = sel.selected_name
           /\ stock_label' = sel.stock_label
    /\ last' = Ran("_select_medicine", 0, << >>)
    /\ UNCHANGED <<disk, store, invoice, added_qty, name_model, add_enabled,
                   print_enabled, loaded_stock, pending, add_log>>

\* what _load_store can leave, over the ways ExcelDataStore() ends
LoadResults(cur_store, workbook) ==
    {load_store(cur_store, outcome, workbook) : outcome \in LoadOutcomes}

\* mutant: added_qty is not cleared with the invoice
clear_invoice_keeps_ledger(cur_store, workbook, msgs_so_far, op) ==
    \E l \in (IF cur_store.loaded THEN LoadResults(cur_store, workbook)
              ELSE {[store |-> cur_store, names |-> name_model, failed |-> FALSE,
                     msgs |-> << >>]}) :
        /\ invoice' = << >>
        /\ added_qty' = added_qty
        /\ selected_name' = clear_selection.selected_name
        /\ stock_label' = clear_selection.stock_label
        /\ store' = l.store
        /\ name_model' = l.names
        /\ add_enabled' = (add_enabled /\ ~l.failed)
        /\ print_enabled' = (print_enabled /\ ~l.failed)
        /\ loaded_stock' = IF cur_store.loaded /\ ~l.failed THEN stocks_of(l.store)
                           ELSE loaded_stock
        /\ pending' = NoPending
        /\ last' = Ran(op, 0, msgs_so_far \o l.msgs)

\* _clear_invoice, from the state the caller left: a new Invoice, an empty
\* added_qty, no selection and, when there is a store, _load_store
clear_invoice(cur_store, workbook, msgs_so_far, op) ==
    \E l \in (IF cur_store.loaded THEN LoadResults(cur_store, workbook)
              ELSE {[store |-> cur_store, names |-> name_model, failed |-> FALSE,
                     msgs |-> << >>]}) :
        /\ invoice' = << >>
        /\ added_qty' = EmptyMap
        /\ selected_name' = clear_selection.selected_name
        /\ stock_label' = clear_selection.stock_label
        /\ store' = l.store
        /\ name_model' = l.names
        /\ add_enabled' = (add_enabled /\ ~l.failed)
        /\ print_enabled' = (print_enabled /\ ~l.failed)
        /\ loaded_stock' = IF cur_store.loaded /\ ~l.failed THEN stocks_of(l.store)
                           ELSE loaded_stock
        /\ pending' = NoPending
        /\ last' = Ran(op, 0, msgs_so_far \o l.msgs)

\* mutant: the message reports the record's stock, not what is still available
add_to_invoice_reports_stock(st, items, aq, cur, qty) ==
    IF ~st.loaded \/ cur.selected_name = None
    THEN [invoice |-> items, added_qty |-> aq, sel |-> cur, qty |-> 0,
          msgs |-> << Msg("Select medicine", "", 0) >>]
    ELSE IF ~has_medicine(st, cur.selected_name)
    THEN [invoice |-> items, added_qty |-> aq, sel |-> cur, qty |-> 0,
          msgs |-> << Msg("Missing", "", 0) >>]
    ELSE LET record == get_medicine(st, cur.selected_name)
             available == available_stock(st, aq, record.name)
         IN  IF qty > available
             THEN [invoice |-> items, added_qty |-> aq, sel |-> cur, qty |-> qty,
                   msgs |-> << Msg("Insufficient stock", "", record.stock) >>]
             ELSE LET item == [name |-> record.name, unit_price |-> record.price,
                               qty |-> qty]
                      new_aq == Put(aq, record.name, Get(aq, record.name, 0) + qty)
                  IN  [invoice |-> add_item(items, item),
                       added_qty |-> new_aq,
                       sel |-> select_medicine(st, new_aq, cur, record.name),
                       qty |-> qty, msgs |-> << >>]

\* mutant: an available stock of 0 is taken for "no limit"
add_to_invoice_unchecked_at_zero(st, items, aq, cur, qty) ==
    IF ~st.loaded \/ cur.selected_name = None
    THEN [invoice |-> items, added_qty |-> aq, sel |-> cur, qty |-> 0,
          msgs |-> << Msg("Select medicine", "", 0) >>]
    ELSE IF ~has_medicine(st, cur.selected_name)
    THEN [invoice |-> items, added_qty |-> aq, sel |-> cur, qty |-> 0,
          msgs |-> << Msg("Missing", "", 0) >>]
    ELSE LET record == get_medicine(st, cur.selected_name)
             available == available_stock(st, aq, record.name)
         IN  IF available # 0 /\ qty > available
             THEN [invoice |-> items, added_qty |-> aq, sel |-> cur, qty |-> qty,
                   msgs |-> << Msg("Insufficient stock", "", available) >>]
             ELSE LET item == [name |-> record.name, unit_price |-> record.price,
                               qty |-> qty]
                      new_aq == Put(aq, record.name, Get(aq, record.name, 0) + qty)
                  IN  [invoice |-> add_item(items, item),
                       added_qty |-> new_aq,
                       sel |-> select_medicine(st, new_aq, cur, record.name),
                       qty |-> qty, msgs |-> << >>]

\* _add_to_invoice on (store, invoice items, added_qty, selection) with the spin
\* box at qty: the invoice, ledger and selection it leaves, its message boxes
\* and the quantity it read from the spin box (0 when it returned before)
add_to_invoice(st, items, aq, cur, qty) ==
    IF ~st.loaded \/ cur.selected_name = None
    THEN [invoice |-> items, added_qty |-> aq, sel |-> cur, qty |-> 0,
          msgs |-> << Msg("Select medicine", "", 0) >>]
    ELSE IF ~has_medicine(st, cur.selected_name)
    THEN [invoice |-> items, added_qty |-> aq, sel |-> cur, qty |-> 0,
          msgs |-> << Msg("Missing", "", 0) >>]
    ELSE LET record == get_medicine(st, cur.selected_name)
             available == available_stock(st, aq, record.name)
         IN  IF qty > available
             THEN [invoice |-> items, added_qty |-> aq, sel |-> cur, qty |-> qty,
                   msgs |-> << Msg("Insufficient stock", "", available) >>]
             ELSE LET item == [name |-> record.name, unit_price |-> record.price,
                               qty |-> qty]
                      new_aq == Put(aq, record.name, Get(aq, record.name, 0) + qty)
                  IN  [invoice |-> add_item(items, item),
                       added_qty |-> new_aq,
                       sel |-> select_medicine(st, new_aq, cur, record.name),
                       qty |-> qty, msgs |-> << >>]

AddToInvoice(qty) ==
    /\ add_enabled
    /\ LET r == add_to_invoice(store, invoice, added_qty, Selection, qty) IN
       /\ invoice' = r.invoice
       /\ added_qty' = r.added_qty
       /\ selected_name' = r.sel.selected_name
       /\ stock_label' = r.sel.stock_label
       /\ last' = Ran("_add_to_invoice", r.qty, r.msgs)
    /\ UNCHANGED <<disk, store, search_text, name_model, add_enabled,
                   print_enabled, loaded_stock, pending, add_log>>

\* mutant: nothing is reduced unless every item can be reduced
RECURSIVE reduce_all_or_nothing(_, _, _)
reduce_all_or_nothing(st, items, i) ==
    LET bad == {j \in i..Len(items) :
                   reduce_stock(st, items[j].name, items[j].qty).exc # ""}
    IN  IF bad # {}
        THEN LET j == CHOOSE x \in bad : \A y \in bad : x <= y
             IN  [store |-> st, exc |-> reduce_stock(st, items[j].name, items[j].qty).exc]
        ELSE IF i > Len(items) THEN [store |-> st, exc |-> ""]
        ELSE reduce_all_or_nothing(reduce_stock(st, items[i].name, items[i].qty).store,
                                   items, i + 1)

\* the loop of _on_print over the invoice's items: stops at the first exception
RECURSIVE reduce_all(_, _, _)
reduce_all(st, items, i) ==
    IF i > Len(items) THEN [store |-> st, exc |-> ""]
    ELSE LET r == reduce_stock(st, items[i].name, items[i].qty) IN
         IF r.exc # "" THEN r ELSE reduce_all(r.store, items, i + 1)

\* mutant: the stock is reduced before the printer is checked
print_and_update_reduces_first(st, items, printer_valid, save_ok) ==
    LET r == reduce_all(st, items, 1) IN
    IF ~printer_valid
    THEN [store |-> r.store, saved |-> FALSE, msg |-> Msg("Printer Error", "", 0)]
    ELSE IF r.exc # ""
    THEN [store |-> r.store, saved |-> FALSE,
          msg |-> Msg("Excel Error: Failed to update stock", r.exc, 0)]
    ELSE IF ~save_ok
    THEN [store |-> r.store, saved |-> FALSE,
          msg |-> Msg("Excel Error: Failed to update stock", "OSError", 0)]
    ELSE [store |-> r.store, saved |-> TRUE, msg |-> Msg("Printed", "", 0)]

\* mutant: the invoice is cleared although the save raised
print_and_update_clears_on_error(st, items, printer_valid, save_ok) ==
    IF ~printer_valid
    THEN [store |-> st, saved |-> FALSE, msg |-> Msg("Printer Error", "", 0)]
    ELSE LET r == reduce_all(st, items, 1) IN
         IF r.exc # ""
         THEN [store |-> r.store, saved |-> FALSE,
               msg |-> Msg("Excel Error: Failed to update stock", r.exc, 0)]
         ELSE IF ~save_ok
         THEN [store |-> r.store, saved |-> TRUE,
               msg |-> Msg("Excel Error: Failed to update stock", "OSError", 0)]
         ELSE [store |-> r.store, saved |-> TRUE, msg |-> Msg("Printed", "", 0)]

\* _on_print from the printer check to the save: the store it leaves, whether
\* the workbook was saved, and its message box
print_and_update(st, items, printer_valid, save_ok) ==
    IF ~printer_valid
    THEN [store |-> st, saved |-> FALSE, msg |-> Msg("Printer Error", "", 0)]
    ELSE LET r == reduce_all(st, items, 1) IN
         IF r.exc # ""
         THEN [store |-> r.store, saved |-> FALSE,
               msg |-> Msg("Excel Error: Failed to update stock", r.exc, 0)]
         ELSE IF ~save_ok
         THEN [store |-> r.store, saved |-> FALSE,
               msg |-> Msg("Excel Error: Failed to update stock", "OSError", 0)]
         ELSE [store |-> r.store, saved |-> TRUE, msg |-> Msg("Printed", "", 0)]

OnPrint ==
    /\ print_enabled
    /\ IF ~store.loaded \/ invoice = << >>
       THEN /\ last' = Ran("_on_print", 0,
                   << Msg(IF ~store.loaded THEN "Excel not loaded" ELSE "No items",
                          "", 0) >>)
            /\ UNCHANGED <<disk, store, invoice, added_qty, selected_name,
                           stock_label, name_model, add_enabled, print_enabled,
                           loaded_stock, pending>>
       ELSE \E c \in {print_and_update(store, invoice, printer_valid, save_ok) :
                          printer_valid \in BOOLEAN, save_ok \in BOOLEAN} :
            IF c.saved
            THEN /\ disk' = c.store.sheet
                 /\ clear_invoice(c.store, c.store.sheet, << c.msg >>, "_on_print")
            ELSE /\ store' = c.store
                 /\ pending' = IF c.msg.exc = "OSError" /\ ~pending.active
                               THEN [active |-> TRUE, stock |-> stocks_of(store)]
                               ELSE pending
                 /\ last' = Ran("_on_print", 0, << c.msg >>)
                 /\ UNCHANGED <<disk, invoice, added_qty, selected_name,
                                stock_label, name_model, add_enabled,
                                print_enabled, loaded_stock>>
    /\ UNCHANGED <<search_text, add_log>>

ClearInvoice ==
    /\ clear_invoice(store, disk, << >>, "_clear_invoice")
    /\ UNCHANGED <<disk, search_text, add_log>>

\* ---------------------------------------------------------------- inputs
NameCells == {<<"A">>, <<"a">>, <<"B">>}
BlankRow == [name |-> << >>, stock |-> NoneCell, price |-> NoneCell, actual |-> NoneCell]
StockCells == {NoneCell, TextCell} \cup {IntCell(n) : n \in 0..MaxStock}
PriceCells == {IntCell(5)}
ActualCells == {NoneCell}
Rows == [name : NameCells, stock : StockCells, price : PriceCells, actual : ActualCells]
            \cup {BlankRow}
\* the first data row is blank or names medicine "A"; the second is any row
FirstRows == {r \in Rows : r.name \in {<< >>, <<"A">>}}
Workbooks == {<<r1, r2>> : r1 \in FirstRows, r2 \in Rows}
SearchTexts == {<< >>, <<"a", " ">>, <<"z">>}
Quantities == 1..MaxQty

\* MainWindow.__init__: empty invoice and ledger, then _load_store
Init ==
    \E workbook \in Workbooks :
    \E l \in LoadResults(NoStore, workbook) :
        /\ disk = workbook
        /\ store = l.store
        /\ invoice = << >>
        /\ added_qty = EmptyMap
        /\ selected_name = None
        /\ stock_label = NoLabel
        /\ search_text = << >>
        /\ name_model = l.names
        /\ add_enabled = ~l.failed
        /\ print_enabled = ~l.failed
        /\ last = Ran("__init__", 0, l.msgs)
        /\ loaded_stock = stocks_of(l.store)
        /\ pending = NoPending
        /\ add_log = << >>

Next ==
    \/ \E text \in SearchTexts : OnSearchText(text)
    \/ OnSearchEnter
    \/ \E name \in NameCells : CompleterActivated(name)
    \/ \E qty \in Quantities : AddToInvoice(qty)
    \/ OnPrint
    \/ ClearInvoice

Spec == Init /\ [][Next]_vars

\* ---------------------------------------------------------------- Invoice alone
\* An Invoice used directly: any sequence of add_item calls, logged in add_log.
Items == [name : NameCells, unit_price : {5}, qty : Quantities]

InvoiceInit ==
    /\ disk = << >>
    /\ store = NoStore
    /\ invoice = << >>
    /\ added_qty = EmptyMap
    /\ selected_name = None
    /\ stock_label = NoLabel
    /\ search_text = << >>
    /\ name_model = << >>
    /\ add_enabled = FALSE
    /\ print_enabled = FALSE
    /\ last = Ran("Invoice", 0, << >>)
    /\ loaded_stock = EmptyMap
    /\ pending = NoPending
    /\ add_log = << >>

AddItem(item) ==
    /\ Len(add_log) < MaxAdds
    /\ invoice' = add_item(invoice, item)
    /\ add_log' = Append(add_log, item)
    /\ last' = Ran("add_item", item.qty, << >>)
    /\ UNCHANGED <<disk, store, added_qty, selected_name, stock_label, search_text,
                   name_model, add_enabled, print_enabled, loaded_stock, pending>>

InvoiceNext == \E item \in Items : AddItem(item)

InvoiceSpec == InvoiceInit /\ [][InvoiceNext]_vars

\* ---------------------------------------------------------------- Invoice totals
\* An Invoice whose items carry float prices: add_item calls, and the three
\* totals taken at a discount percent (a value of the discount spin box).
Prices == {FromDecimal(999, 100), FromInt(100)}
PricedItems == [name : {<<"A">>, <<"B">>}, unit_price : Prices, qty : {1, 2}]
Percents == {FromDecimal(k, 10) : k \in {0, 27, 100, 1000}}

TotalsInit == InvoiceInit

AddPricedItem(item) ==
    /\ Len(add_log) < MaxPriced
    /\ invoice' = add_item(invoice, item)
    /\ add_log' = Append(add_log, item)
    /\ last' = Ran("add_item", item.qty, << >>)
    /\ UNCHANGED <<disk, store, added_qty, selected_name, stock_label, search_text,
                   name_model, add_enabled, print_enabled, loaded_stock, pending>>

Totals(percent) ==
    /\ last' = [op |-> "totals", qty |-> 0, msgs |-> << >>, percent |-> percent,
                subtotal |-> subtotal(invoice),
                discount_amount |-> discount_amount(invoice, percent),
                net_total |-> net_total(invoice, percent)]
    /\ UNCHANGED <<disk, store, invoice, added_qty, selected_name, stock_label,
                   search_text, name_model, add_enabled, print_enabled,
                   loaded_stock, pending, add_log>>

TotalsNext ==
    \/ \E item \in PricedItems : AddPricedItem(item)
    \/ \E percent \in Percents : Totals(percent)

TotalsSpec == TotalsInit /\ [][TotalsNext]_vars

\* ---------------------------------------------------------------- the store alone
\* An ExcelDataStore used directly: loaded from the workbook file, then any
\* sequence of get_medicine, reduce_stock and save calls and of new loads.
\* Here the Stock cells also take a negative number.
Called(op, name, qty, exc, result) ==
    [op |-> op, qty |-> qty, msgs |-> << >>, name |-> name, exc |-> exc,
     result |-> result]

StoreStockCells == StockCells \cup {IntCell(-1)}
StoreRows == [name : NameCells, stock : StoreStockCells, price : PriceCells,
              actual : ActualCells] \cup {BlankRow}
StoreWorkbooks ==
    {<<r1, r2>> : r1 \in {r \in StoreRows : r.name \in {<< >>, <<"A">>}},
                  r2 \in StoreRows}
CallNames == {<<"A">>, <<" ", "a">>, <<"B">>, <<"z">>}
CallQuantities == (-1)..MaxQty

StoreInit ==
    \E workbook \in StoreWorkbooks :
        /\ disk = workbook
        /\ store = ExcelDataStore(workbook)
        /\ invoice = << >>
        /\ added_qty = EmptyMap
        /\ selected_name = None
        /\ stock_label = NoLabel
        /\ search_text = << >>
        /\ name_model = << >>
        /\ add_enabled = FALSE
        /\ print_enabled = FALSE
        /\ last = Called("ExcelDataStore", << >>, 0, "", << >>)
        /\ loaded_stock = stocks_of(ExcelDataStore(workbook))
        /\ pending = NoPending
        /\ add_log = << >>

StoreUnchanged ==
    UNCHANGED <<invoice, added_qty, selected_name, stock_label, search_text,
                name_model, add_enabled, print_enabled, pending, add_log>>

GetMedicine(name) ==
    /\ last' = Called("get_medicine", name, 0, "",
                      IF has_medicine(store, name) THEN << get_medicine(store, name) >>
                      ELSE << >>)
    /\ UNCHANGED <<disk, store, loaded_stock>>
    /\ StoreUnchanged

ReduceStock(name, qty) ==
    /\ LET r == reduce_stock(store, name, qty) IN
       /\ store' = r.store
       /\ last' = Called("reduce_stock", name, qty, r.exc, << >>)
    /\ UNCHANGED <<disk, loaded_stock>>
    /\ StoreUnchanged

Save ==
    /\ disk' = store.sheet
    /\ last' = Called("save", << >>, 0, "", << >>)
    /\ UNCHANGED <<store, loaded_stock>>
    /\ StoreUnchanged

Load ==
    /\ store' = ExcelDataStore(disk)
    /\ loaded_stock' = stocks_of(ExcelDataStore(disk))
    /\ last' = Called("ExcelDataStore", << >>, 0, "", << >>)
    /\ UNCHANGED disk
    /\ StoreUnchanged

StoreNext ==
    \/ \E name \in CallNames : GetMedicine(name)
    \/ \E name \in CallNames, qty \in CallQuantities : ReduceStock(name, qty)
    \/ Save
    \/ Load

StoreSpec == StoreInit /\ [][StoreNext]_vars

\* ---------------------------------------------------------------- claims
RECURSIVE SumOver(_, _)
SumOver(f, keys) ==
    IF keys = {} THEN 0
    ELSE LET k == CHOOSE x \in keys : TRUE IN f[k] + SumOver(f, keys \ {k})

\* the quantity the ledger holds for the medicine whose normalised name is norm
Reserved(norm) ==
    SumOver(added_qty, {name \in DOMAIN added_qty : normalize_name(name) = norm})

Shown(title) == \E i \in 1..Len(last.msgs) : last.msgs[i].title = title
ShownNext(title) == \E i \in 1..Len(last'.msgs) : last'.msgs[i].title = title
StockOf(st, name) == get_medicine(st, name).stock
SaveFailedStep ==
    /\ last'.op = "_on_print"
    /\ last'.msgs = << Msg("Excel Error: Failed to update stock", "OSError", 0) >>
SaveFailedStepDone ==
    last = Ran("_on_print", 0,
               << Msg("Excel Error: Failed to update stock", "OSError", 0) >>)
PrintedStep == last'.op = "_on_print" /\ ShownNext("Printed")

\* C1: in every reachable state, for every medicine, the quantity held in the
\* reservation ledger is at most that medicine's current in-memory stock.
C1_ReservedWithinStock ==
    \A norm \in DOMAIN store.records : Reserved(norm) <= store.records[norm].stock

\* C2: a checkout whose save fails leaves every invoiced medicine's in-memory
\* stock decremented by the line's quantity and the source unwritten, and the
\* checkout that finally saves writes, for every invoiced medicine, the stock it
\* had before the first failed checkout minus the line's quantity (one decrement).
C2_RetryDecrementsOnce ==
    [][ /\ SaveFailedStep =>
            /\ disk' = disk
            /\ \A i \in 1..Len(invoice) :
                   StockOf(store', invoice[i].name)
                       = StockOf(store, invoice[i].name) - invoice[i].qty
        /\ (PrintedStep /\ pending.active) =>
            \A i \in 1..Len(invoice) :
                StockOf(ExcelDataStore(disk'), invoice[i].name)
                    = pending.stock[normalize_name(invoice[i].name)] - invoice[i].qty
      ]_vars

\* C3: a checkout whose printer is not valid changes no medicine's in-memory
\* stock, writes nothing to the source and leaves the invoice and the
\* reservation ledger exactly as they were.
C3_PrintFailureAborts ==
    [][ (last'.op = "_on_print" /\ ShownNext("Printer Error")) =>
            /\ store' = store
            /\ disk' = disk
            /\ invoice' = invoice
            /\ added_qty' = added_qty
      ]_vars

C3_Witness ==
    /\ last = Ran("_on_print", 0, << Msg("Printer Error", "", 0) >>)
    /\ Len(invoice) = 2
    /\ \E norm \in DOMAIN store.records : Reserved(norm) = MaxQty

\* C4: the total quantity reserved for a medicine never exceeds the stock its
\* record had when the store was loaded, whatever adds were accepted or rejected.
C4_ReservedWithinLoadedStock ==
    /\ \A name \in DOMAIN added_qty : has_medicine(store, name)
    /\ \A norm \in DOMAIN store.records : Reserved(norm) <= loaded_stock[norm]

C4_Witness ==
    /\ last.op = "_add_to_invoice"
    /\ Shown("Insufficient stock")
    /\ \E norm \in DOMAIN store.records :
           Reserved(norm) = loaded_stock[norm] /\ loaded_stock[norm] = MaxStock

RECURSIVE LogSum(_, _, _)
LogSum(log, name, i) ==
    IF i > Len(log) THEN 0
    ELSE (IF log[i].name = name THEN log[i].qty ELSE 0) + LogSum(log, name, i + 1)

RECURSIVE FirstNames(_, _)
FirstNames(log, i) ==
    IF i = 0 THEN << >>
    ELSE LET prev == FirstNames(log, i - 1) IN
         IF \E j \in 1..Len(prev) : prev[j] = log[i].name THEN prev
         ELSE Append(prev, log[i].name)

\* the quantity the invoice items hold for name (0 when no line has that name)
QtyOf(items, name) == LogSum(items, name, 1)

\* C5: after any sequence of add_item calls the invoice has at most one line per
\* medicine name, each line's quantity is the sum of the quantities added for
\* that name, and the lines stand in the order their names were first added.
C5_OneLinePerName ==
    /\ \A i, j \in 1..Len(invoice) : invoice[i].name = invoice[j].name => i = j
    /\ \A i \in 1..Len(invoice) :
           invoice[i].qty = LogSum(add_log, invoice[i].name, 1)
    /\ [i \in 1..Len(invoice) |-> invoice[i].name] = FirstNames(add_log, Len(add_log))

C5_Witness ==
    /\ Len(add_log) = 2
    /\ add_log[1] = add_log[2]
    /\ add_log[1].qty = MaxQty
    /\ Len(invoice) = 1
    /\ invoice[1].qty = 2 * MaxQty

\* C6: an add whose quantity exceeds the selected medicine's available stock
\* (its stock less the quantity already in the invoice, not below 0) shows
\* "Insufficient stock" with that available amount and changes neither the
\* invoice, the ledger, the selection nor the store's stock.
C6_InsufficientStockRejected ==
    [][ ( /\ last'.op = "_add_to_invoice"
          /\ store.loaded
          /\ selected_name # None
          /\ has_medicine(store, selected_name)
          /\ last'.qty > Max(StockOf(store, selected_name)
                               - Reserved(normalize_name(selected_name)), 0) )
        => /\ last'.msgs =
                << Msg("Insufficient stock", "",
                       Max(StockOf(store, selected_name)
                             - Reserved(normalize_name(selected_name)), 0)) >>
           /\ invoice' = invoice
           /\ added_qty' = added_qty
           /\ selected_name' = selected_name
           /\ store' = store
           /\ disk' = disk
      ]_vars

C6_Witness ==
    /\ last.op = "_add_to_invoice"
    /\ last.qty = MaxQty
    /\ last.msgs = << Msg("Insufficient stock", "", 1) >>
    /\ selected_name # None
    /\ Get(added_qty, selected_name, 0) = MaxStock - 1
    /\ StockOf(store, selected_name) = MaxStock

\* C7: an accepted add of qty leaves the same medicine selected, raises the
\* quantity of that medicine's invoice line and its ledger entry by exactly qty
\* (no other line or entry changes) and shows an available stock that is the
\* available stock before the add less qty.
C7_AddReservesExactly ==
    [][ (last'.op = "_add_to_invoice" /\ last'.msgs = << >>)
        => /\ selected_name # None
           /\ selected_name' = selected_name
           /\ QtyOf(invoice', selected_name) = QtyOf(invoice, selected_name) + last'.qty
           /\ Get(added_qty', selected_name, 0)
                  = Get(added_qty, selected_name, 0) + last'.qty
           /\ \A name \in NameCells \ {selected_name} :
                  /\ QtyOf(invoice', name) = QtyOf(invoice, name)
                  /\ Get(added_qty', name, 0) = Get(added_qty, name, 0)
           /\ Len(invoice') <= Len(invoice) + 1
           /\ stock_label' =
                  << StockOf(store, selected_name)
                       - Get(added_qty, selected_name, 0) - last'.qty >>
           /\ store' = store
      ]_vars

C7_Witness ==
    /\ last = Ran("_add_to_invoice", 1, << >>)
    /\ selected_name # None
    /\ Len(invoice) = 2
    /\ QtyOf(invoice, selected_name) = 2
    /\ Get(added_qty, selected_name, 0) = 2
    /\ stock_label = << StockOf(store, selected_name) - 2 >>

\* C8: when a checkout succeeds, the stock a load reads from the written source
\* is, for every line of the invoice, the medicine's in-memory stock before the
\* checkout less the line's quantity.
C8_CheckoutRoundTrip ==
    [][ PrintedStep =>
            \A i \in 1..Len(invoice) :
                /\ has_medicine(ExcelDataStore(disk'), invoice[i].name)
                /\ StockOf(ExcelDataStore(disk'), invoice[i].name)
                       = StockOf(store, invoice[i].name) - invoice[i].qty
      ]_vars

C8_Witness ==
    /\ last = Ran("_on_print", 0, << Msg("Printed", "", 0) >>)
    /\ store = ExcelDataStore(disk)
    /\ \E r \in 1..Len(disk) : disk[r].stock = IntCell(MaxStock - 1)
    /\ \E r \in 1..Len(disk) : disk[r].stock = IntCell(0) /\ disk[r].name # << >>

\* the first line of the invoice whose quantity exceeds the stock of its record
FirstShort(st, items) ==
    CHOOSE k \in 1..Len(items) :
        /\ items[k].qty > StockOf(st, items[k].name)
        /\ \A i \in 1..(k - 1) : items[i].qty <= StockOf(st, items[i].name)

\* C9: when a stock decrement fails during checkout, the lines before the
\* failing one have their stock reduced in memory, the failing line and the
\* lines after it have not, the source is not written and the invoice and the
\* reservation ledger are kept.
C9_PartialDecrementKept ==
    [][ ( /\ last'.op = "_on_print"
          /\ ShownNext("Excel Error: Failed to update stock")
          /\ last'.msgs[1].exc # "OSError" )
        => /\ \E k \in 1..Len(invoice) : invoice[k].qty > StockOf(store, invoice[k].name)
           /\ LET k == FirstShort(store, invoice) IN
              \A i \in 1..Len(invoice) :
                  StockOf(store', invoice[i].name) =
                      IF i < k THEN StockOf(store, invoice[i].name) - invoice[i].qty
                      ELSE StockOf(store, invoice[i].name)
           /\ disk' = disk
           /\ invoice' = invoice
           /\ added_qty' = added_qty
      ]_vars

C9_Witness ==
    /\ last = Ran("_on_print", 0,
           << Msg("Excel Error: Failed to update stock", "ValueError: insufficient", 0) >>)
    /\ Len(invoice) = 2
    /\ StockOf(store, invoice[1].name)
           = loaded_stock[normalize_name(invoice[1].name)] - 2 * invoice[1].qty
    /\ StockOf(store, invoice[2].name)
           = loaded_stock[normalize_name(invoice[2].name)] - invoice[2].qty

\* the step ran _clear_invoice: the Clear button, or a checkout that printed
ClearingStep == last'.op = "_clear_invoice" \/ PrintedStep

\* C10: the invoice and the reservation ledger are empty at session start and
\* after every successful checkout and every clear; no other step empties
\* either, and a failed checkout or a rejected add leaves both as they were.
C10_EmptiedOnlyByCheckoutOrClear ==
    /\ (invoice = << >> /\ added_qty = EmptyMap)
    /\ [][ /\ ClearingStep => (invoice' = << >> /\ added_qty' = EmptyMap)
           /\ ( \/ (invoice # << >> /\ invoice' = << >>)
                \/ (added_qty # EmptyMap /\ added_qty' = EmptyMap) ) => ClearingStep
           /\ ( \/ (last'.op = "_on_print" /\ ~ShownNext("Printed"))
                \/ (last'.op = "_add_to_invoice" /\ last'.msgs # << >>) )
              => (invoice' = invoice /\ added_qty' = added_qty)
         ]_vars

C10_Witness ==
    /\ last = Ran("_on_print", 0, << Msg("Printed", "", 0) >>)
    /\ invoice = << >>
    /\ added_qty = EmptyMap
    /\ selected_name = None
    /\ search_text # << >>

\* C11: reduce_stock(name, qty) raises for qty <= 0, raises KeyError for a
\* name the store does not know and raises the insufficient-stock ValueError
\* when qty exceeds the record's stock; a call that raises changes no record's
\* stock; a call that returns lowers exactly that record's stock by qty; no
\* call writes the workbook file.
C11_ReduceStockContract ==
    [][ last'.op = "reduce_stock" =>
          LET qty == last'.qty
              norm == normalize_name(last'.name)
          IN  /\ disk' = disk
              /\ DOMAIN store'.records = DOMAIN store.records
              /\ IF qty <= 0
                 THEN last'.exc # "" /\ stocks_of(store') = stocks_of(store)
                 ELSE IF norm \notin DOMAIN store.records
                 THEN last'.exc = "KeyError" /\ stocks_of(store') = stocks_of(store)
                 ELSE IF qty > store.records[norm].stock
                 THEN /\ last'.exc = "ValueError: insufficient"
                      /\ stocks_of(store') = stocks_of(store)
                 ELSE /\ last'.exc = ""
                      /\ stocks_of(store') =
                             [stocks_of(store) EXCEPT ![norm] = @ - qty]
      ]_vars

\* a call for a name written differently from the sheet's has returned, with
\* the other record untouched and the file still holding the loaded stock
C11_Witness ==
    /\ last = Called("reduce_stock", <<" ", "a">>, MaxQty, "", << >>)
    /\ Cardinality(DOMAIN store.records) = 2
    /\ \E n \in DOMAIN store.records :
           /\ store.records[n].stock = MaxStock - MaxQty
           /\ loaded_stock[n] = MaxStock
    /\ ExcelDataStore(disk) # store

LookupOps == {"_on_search_text", "_on_search_enter", "_select_medicine"}

\* C12: a lookup (typed search text, Enter, completer activation) whose name
\* is not in the inventory leaves no medicine selected, and an add made right
\* after such a lookup adds nothing to the invoice.
C12_LookupMissLeavesIdle ==
    [][ /\ (last'.op \in LookupOps /\ ~has_medicine(store', search_text'))
              => selected_name' = None
        /\ ( /\ last.op \in LookupOps
             /\ ~has_medicine(store, search_text)
             /\ last'.op = "_add_to_invoice" )
              => invoice' = invoice
      ]_vars

\* C13: whenever a medicine is selected, the available stock shown for it and
\* the available stock adds are checked against both equal the record's
\* current stock minus the quantity the ledger holds for it.
C13_AvailableIsStockLessReserved ==
    (selected_name # None /\ store.loaded /\ has_medicine(store, selected_name))
    => /\ stock_label = << StockOf(store, selected_name)
                             - Reserved(normalize_name(selected_name)) >>
       /\ available_stock(store, added_qty, selected_name)
              = StockOf(store, selected_name)
                  - Reserved(normalize_name(selected_name))

LoadFailedStep == ShownNext("Excel Error: Failed to load Excel")
LoadedStep == ClearingStep /\ store.loaded /\ ~LoadFailedStep

\* the last load failed and left records of an earlier load in the store
AfterFailedLoad ==
    /\ store.loaded
    /\ DOMAIN store.records # {}
    /\ name_model = << >>

\* the quantity the invoice items hold for the record with normalised name norm
QtyOfNorm(items, norm) ==
    SumOver([i \in 1..Len(items) |-> items[i].qty],
            {i \in 1..Len(items) : normalize_name(items[i].name) = norm})

\* a load that fails keeps the records that were in the store when it ran: the
\* same names and prices, and the stocks the checkout (if any) had just written
FailedLoadKeepsRecords ==
    (store.loaded /\ LoadFailedStep) =>
        /\ store'.loaded
        /\ DOMAIN store'.records = DOMAIN store.records
        /\ store'.names = store.names
        /\ \A n \in DOMAIN store.records :
               /\ store'.records[n].name = store.records[n].name
               /\ store'.records[n].price = store.records[n].price
               /\ store'.records[n].stock =
                      store.records[n].stock
                        - (IF PrintedStep THEN QtyOfNorm(invoice, n) ELSE 0)

\* after a failed load a typed or entered name of an old record selects it
OldRecordsLookedUp ==
    ( /\ AfterFailedLoad
      /\ last'.op \in {"_on_search_text", "_on_search_enter"}
      /\ has_medicine(store, search_text') )
    => /\ selected_name' = get_medicine(store, search_text').name
       /\ stock_label' = << available_stock(store, added_qty, selected_name') >>

\* a load that succeeds leaves exactly the records of the file's rows
LoadReplacesRecords ==
    LoadedStep =>
        /\ DOMAIN store'.records =
               {normalize_name(disk'[i].name) :
                    i \in {j \in 1..Len(disk') : disk'[j].name # << >>}}
        /\ \A n \in DOMAIN store'.records :
               \E i \in 1..Len(disk') :
                   /\ normalize_name(disk'[i].name) = n
                   /\ \A j \in (i + 1)..Len(disk') : normalize_name(disk'[j].name) # n
                   /\ store'.records[n].name = disk'[i].name
                   /\ store'.records[n].stock = to_int(disk'[i].stock, 0)

\* C14 as stated: a load that fails leaves the old records in place, usable
\* for lookup and for add, and a load that succeeds replaces the whole record
\* set at once.
C14_FailedLoadKeepsOldRecordsUsable ==
    [][ /\ FailedLoadKeepsRecords
        /\ OldRecordsLookedUp
        /\ (store.loaded /\ LoadFailedStep) => add_enabled'
        /\ LoadReplacesRecords
      ]_vars

\* C14 amended: a load that fails leaves the old records in place and usable
\* for lookup, but no add is accepted after it (the Add button is disabled);
\* a load that succeeds replaces the whole record set at once.
C14_FailedLoadKeepsOldRecords ==
    [][ /\ FailedLoadKeepsRecords
        /\ OldRecordsLookedUp
        /\ (store.loaded /\ LoadFailedStep) => ~add_enabled'
        /\ AfterFailedLoad => last'.op # "_add_to_invoice"
        /\ LoadReplacesRecords
      ]_vars

\* a checkout was saved, its reload failed, and a typed name then selected
\* one of the old records
C14_Witness ==
    /\ AfterFailedLoad
    /\ ~add_enabled
    /\ last.op = "_on_search_text"
    /\ selected_name # None
    /\ store.sheet = disk
    /\ \E n \in DOMAIN store.records : store.records[n].stock < loaded_stock[n]

\* C15: in every reachable state, right after a load and after any sequence of
\* stock decrements and saves, every record's stock is an integer >= 0.
C15_StockNeverNegative ==
    \A n \in DOMAIN store.records :
        store.records[n].stock \in Int /\ store.records[n].stock >= 0

\* C16: for every invoice and every discount percent p in [0, 100],
\* discount_amount(p) + net_total(p) = subtotal(), net_total(0) = subtotal()
\* and net_total(100) = 0; a subtotal of 200.00 at 10% gives a discount of
\* 20.00 and a net total of 180.00.
C16_DiscountAlgebra ==
    last.op = "totals" =>
        /\ FAdd(last.discount_amount, last.net_total) = last.subtotal
        /\ last.percent = FromInt(0) => last.net_total = last.subtotal
        /\ last.percent = FromInt(100) => last.net_total = FZero
        /\ (last.subtotal = FromInt(200) /\ last.percent = FromInt(10))
              => /\ last.discount_amount = FromInt(20)
                 /\ last.net_total = FromInt(180)

Fold(c) == CASE c = "A" -> "a" [] c = "B" -> "b" [] OTHER -> c

\* the name without the spaces before its first and after its last other character
Trimmed(name) ==
    LET idx == {i \in 1..Len(name) : name[i] # " "}
    IN  IF idx = {} THEN << >>
        ELSE SubSeq(name, CHOOSE i \in idx : \A j \in idx : i <= j,
                          CHOOSE i \in idx : \A j \in idx : i >= j)

\* equal after trimming and ignoring case
SameName(a, b) ==
    /\ Len(Trimmed(a)) = Len(Trimmed(b))
    /\ \A i \in 1..Len(Trimmed(a)) : Fold(Trimmed(a)[i]) = Fold(Trimmed(b)[i])

\* C17: get_medicine finds a record exactly when some stored name equals the
\* asked name after trimming and ignoring case; the record found carries such a
\* name, every other spelling of the name finds the same record, and the store
\* holds one record per name up to trimming and case.
C17_LookupByNormalisedName ==
    last.op = "get_medicine" =>
        LET hits == {i \in 1..Len(store.names) : SameName(store.names[i], last.name)}
        IN  /\ (hits = {}) <=> (last.result = << >>)
            /\ hits # {} =>
                   /\ SameName(last.result[1].name, last.name)
                   /\ \A other \in CallNames \cup NameCells :
                          SameName(other, last.name) =>
                              /\ has_medicine(store, other)
                              /\ get_medicine(store, other) = last.result[1]
            /\ \A k1, k2 \in DOMAIN store.records :
                   SameName(store.records[k1].name, store.records[k2].name) => k1 = k2
            /\ \A i \in 1..Len(store.names) :
                   \E k \in DOMAIN store.records :
                       SameName(store.records[k].name, store.names[i])

\* " a" found the one record that the rows "A" and "a" share
C17_Witness ==
    /\ last.op = "get_medicine"
    /\ last.name = <<" ", "a">>
    /\ last.result # << >>
    /\ store.names = << <<"A">>, <<"a">> >>
    /\ Cardinality(DOMAIN store.records) = 1

\* row i of the sheet is the one its medicine's record is read from
RecordRow(sheet, i) ==
    /\ sheet[i].name # << >>
    /\ \A j \in (i + 1)..Len(sheet) :
           normalize_name(sheet[j].name) # normalize_name(sheet[i].name)

\* the medicines whose Stock cell in the file is blank or not a number
DefaultedStock ==
    {normalize_name(disk[i].name) :
         i \in {j \in 1..Len(disk) :
                    RecordRow(disk, j) /\ disk[j].stock.kind \in {"none", "text"}}}

\* every row that names a medicine has its record, a defaulted one with stock 0
RowsLoaded ==
    store.loaded =>
        \A i \in 1..Len(disk) :
            RecordRow(disk, i) =>
                /\ has_medicine(store, disk[i].name)
                /\ disk[i].stock.kind # "int" =>
                       /\ loaded_stock[normalize_name(disk[i].name)] = 0
                       /\ StockOf(store, disk[i].name) = 0

DefaultedShowsZero ==
    (selected_name # None /\ normalize_name(selected_name) \in DefaultedStock)
        => stock_label = << 0 >>

\* C18: a row whose Stock cell is blank or not a number loads as a record with
\* stock 0 and the other rows load too; that medicine shows an available stock
\* of 0 and every add for it is rejected with "Insufficient stock", while an
\* add for another medicine within its available stock is accepted.
C18_BlankStockLoadsAsZero ==
    /\ RowsLoaded
    /\ [][ /\ RowsLoaded'
           /\ DefaultedShowsZero'
           /\ ( /\ last'.op = "_add_to_invoice"
                /\ store.loaded
                /\ selected_name # None )
              => IF normalize_name(selected_name) \in DefaultedStock
                 THEN /\ last'.msgs = << Msg("Insufficient stock", "", 0) >>
                      /\ invoice' = invoice
                      /\ added_qty' = added_qty
                 ELSE (last'.qty <= StockOf(store, selected_name)
                                      - Reserved(normalize_name(selected_name)))
                      => /\ last'.msgs = << >>
                         /\ QtyOf(invoice', selected_name)
                                = QtyOf(invoice, selected_name) + last'.qty
         ]_vars

\* the medicine of a row with a non-numeric Stock cell was refused while the
\* other medicine is on the invoice
C18_Witness ==
    /\ last.op = "_add_to_invoice"
    /\ last.msgs = << Msg("Insufficient stock", "", 0) >>
    /\ normalize_name(selected_name) \in DefaultedStock
    /\ \E i \in 1..Len(disk) : RecordRow(disk, i) /\ disk[i].stock.kind = "text"
    /\ Len(invoice) = 1
    /\ invoice[1].name # selected_name
    /\ invoice[1].qty = MaxQty

\* C19: in every reachable state, for every medicine name, the ledger entry
\* (0 when absent) equals the quantity of the invoice line with that name
\* (0 when there is no such line).
C19_LedgerMatchesInvoice ==
    \A name \in NameCells \cup (DOMAIN added_qty)
                       \cup {invoice[i].name : i \in 1..Len(invoice)} :
        Get(added_qty, name, 0) = QtyOf(invoice, name)

\* two lines, one of them merged from two adds, kept by a checkout whose save failed
C19_Witness ==
    /\ SaveFailedStepDone
    /\ Len(invoice) = 2
    /\ Cardinality(DOMAIN added_qty) = 2
    /\ \E i \in 1..2 : invoice[i].qty = 2 /\ added_qty[invoice[i].name] = 2
    /\ \E i \in 1..2 : invoice[i].qty = 1 /\ added_qty[invoice[i].name] = 1

\* C20: once a reload of the inventory has failed (after a checkout or a
\* clear), a later reload that succeeds makes adding to the invoice and
\* checkout usable again.
C20_ReloadSuccessUnblocks ==
    [][ LoadedStep => (add_enabled' /\ print_enabled') ]_vars

====
